---------------------------- MODULE Spec2Model ----------------------------
(***************************************************************************)
(* The two stream consumers of nextjs-react-sse-starter:                   *)
(*   - the debug console  (src/app/debug/page.tsx, compact prefixes), and  *)
(*   - the custom protocol demo (src/app/page.tsx, semantic prefixes).     *)
(*                                                                         *)
(* Text is a sequence of one-character strings.  One action is one task of *)
(* the browser's event loop: a click handler, or the resumption of a read  *)
(* loop at an await together with the synchronous code (and microtasks)    *)
(* that follows it up to the next await of a timer or of the network.      *)
(* Timestamps of events are left out: no claim reads them.                 *)
(***************************************************************************)
EXTENDS Integers, Sequences, FiniteSets, TLC

VARIABLES
    page,               \* which component is mounted: "debug" or "main"
    stream,             \* debug: the text of the response body
    chunks,             \* main: the chunks the async generator yields
    events,             \* useState events
    responseText,       \* useState responseText (main page)
    isStreaming,        \* useState isStreaming
    abortControllerRef, \* useRef: 0 is null, else the id of a controller
    aborted,            \* signal.aborted of each AbortController
    loop                \* the invocations of startStreaming / startStream

vars == <<page, stream, chunks, events, responseText, isStreaming,
          abortControllerRef, aborted, loop>>

(***************************************************************************)
(* Bounds of the model.                                                    *)
(***************************************************************************)
\* the longest response body of the debug console, in lines
MaxLines == 2
\* the most chunks the generator of the demo yields
MaxChunks == 2
\* the number of invocations of the start handler that can be live at once
MaxLoops == 2

LoopIds == 1..MaxLoops

(***************************************************************************)
(* Strings.                                                                *)
(***************************************************************************)
NL == "\n"
DQ == "\""

\* String.prototype.trim: the white space of the model's alphabet
IsWhitespace(c) == c \in {" ", "\t", "\r", "\n"}

RECURSIVE TrimStart(_)
TrimStart(s) ==
    IF s # <<>> /\ IsWhitespace(Head(s)) THEN TrimStart(Tail(s)) ELSE s

RECURSIVE TrimEnd(_)
TrimEnd(s) ==
    IF s # <<>> /\ IsWhitespace(s[Len(s)])
    THEN TrimEnd(SubSeq(s, 1, Len(s) - 1))
    ELSE s

Trim(s) == TrimEnd(TrimStart(s))

\* a string is truthy iff it is not empty
Truthy(s) == s # <<>>

StartsWith(s, p) == Len(s) >= Len(p) /\ SubSeq(s, 1, Len(p)) = p

\* s.slice(n)
Slice(s, n) == SubSeq(s, n + 1, Len(s))

\* s.split('\n'): always at least one segment
RECURSIVE Split(_)
Split(s) ==
    IF \E i \in 1..Len(s) : s[i] = NL
    THEN LET i == CHOOSE j \in 1..Len(s) :
                     s[j] = NL /\ \A k \in 1..(j - 1) : s[k] # NL
         IN  <<SubSeq(s, 1, i - 1)>> \o Split(SubSeq(s, i + 1, Len(s)))
    ELSE <<s>>

\* lines.pop() || '' : the last segment; the empty string is falsy
PopOrEmpty(lines) ==
    LET last == lines[Len(lines)] IN IF Truthy(last) THEN last ELSE <<>>

ButLast(lines) == SubSeq(lines, 1, Len(lines) - 1)

\* NonBlank, had the loop had no filter
KeepBlank(lines) == lines

\* the for loop's filter: if (line.trim())
RECURSIVE NonBlank(_)
NonBlank(lines) ==
    IF lines = <<>> THEN <<>>
    ELSE IF Truthy(Trim(Head(lines)))
         THEN <<Head(lines)>> \o NonBlank(Tail(lines))
         ELSE NonBlank(Tail(lines))

(***************************************************************************)
(* JSON.  A value is [t, v, keys, name]: its type, its text as String()    *)
(* gives it, and for an object its keys and the value of its "name".       *)
(***************************************************************************)
JStr(cs) == [t |-> "string", v |-> cs, keys |-> {}, name |-> <<>>]
JNum(cs) == [t |-> "number", v |-> cs, keys |-> {}, name |-> <<>>]
JFalse == [t |-> "boolean", v |-> <<"f", "a", "l", "s", "e">>, keys |-> {}, name |-> <<>>]
JTrue == [t |-> "boolean", v |-> <<"t", "r", "u", "e">>, keys |-> {}, name |-> <<>>]
JNull == [t |-> "null", v |-> <<"n", "u", "l", "l">>, keys |-> {}, name |-> <<>>]
JObj(ks, nm) == [t |-> "object", v |-> <<"[object Object]">>, keys |-> ks, name |-> nm]
Undefined == [t |-> "undefined", v |-> <<"undefined">>, keys |-> {}, name |-> <<>>]

\* The documents of the scenarios.  The member of an object is one element
\* of the text: no chunk boundary of the model falls inside it.
HiDoc == <<DQ, "H", "i", DQ>>
UnknownFnDoc == <<"{", "\"name\":\"unknown_fn\"", "}">>
WeatherDoc == <<"{", "\"name\":\"get_current_weather\"", "}">>
FinishDoc == <<"{", "\"finishReason\":\"stop\"", "}">>

\* JSON.parse on the documents of the model: the valid ones and their values.
\* Any other text of the model is not valid JSON and makes JSON.parse throw.
JsonDocuments ==
    { <<<<DQ, "A", DQ>>, JStr(<<"A">>)>>,
      <<<<DQ, "B", DQ>>, JStr(<<"B">>)>>,
      <<<<DQ, DQ>>, JStr(<<>>)>>,
      <<<<"0">>, JNum(<<"0">>)>>,
      <<<<"1">>, JNum(<<"1">>)>>,
      <<<<"1", "2">>, JNum(<<"1", "2">>)>>,
      <<<<"f", "a", "l", "s", "e">>, JFalse>>,
      <<<<"t", "r", "u", "e">>, JTrue>>,
      <<<<"n", "u", "l", "l">>, JNull>>,
      <<<<"{", "}">>, JObj({}, <<>>)>>,
      <<HiDoc, JStr(<<"H", "i">>)>>,
      <<UnknownFnDoc, JObj({"name"}, <<"unknown_fn">>)>>,
      <<WeatherDoc, JObj({"name"}, <<"get_current_weather">>)>>,
      <<FinishDoc, JObj({"finishReason"}, <<>>)>>,
      <<<<DQ, "T", "E", "X", "T", ":", DQ>>,
        JStr(<<"T", "E", "X", "T", ":">>)>> }

\* JSON.parse skips white space around the document
JsonParse(s) ==
    LET doc == Trim(s) IN
    IF \E d \in JsonDocuments : d[1] = doc
    THEN [ok |-> TRUE, val |-> (CHOOSE d \in JsonDocuments : d[1] = doc)[2]]
    ELSE [ok |-> FALSE, val |-> Undefined]

\* JavaScript truthiness of a JSON value (x || '')
TruthyValue(x) ==
    CASE x.t = "null" -> FALSE
      [] x.t = "undefined" -> FALSE
      [] x.t = "boolean" -> x = JTrue
      [] x.t = "number" -> x.v # <<"0">>
      [] x.t = "string" -> x.v # <<>>
      [] OTHER -> TRUE


(***************************************************************************)
(* The streams a request can be answered with: up to MaxLines lines of the *)
(* page's protocol, each ended by a newline, the last one possibly not.    *)
(***************************************************************************)
DebugLines ==
    { <<"0", ":", DQ, "A", DQ>>,
      <<"0", ":", "{", "n">>,
      <<"9", ":", "n", "u", "l", "l">>,
      <<"a", ":", "1">>,
      <<"e", ":", "{", "}">>,
      <<"z", "z">>,
      <<" ">>,
      <<>> }

RECURSIVE Join(_, _)
Join(lines, terminated) ==
    IF lines = <<>> THEN <<>>
    ELSE IF Len(lines) = 1 /\ ~terminated THEN Head(lines)
         ELSE Head(lines) \o <<NL>> \o Join(Tail(lines), terminated)

StreamsOf(lineSet) ==
    { Join(ls, t) : ls \in UNION { [1..n -> lineSet] : n \in 1..MaxLines },
                    t \in BOOLEAN }

(***************************************************************************)
(* Debug console: parseStreamEvent.                                        *)
(***************************************************************************)
\* CompactEvent, had every prefix been given the type of the first
CompactEventOneType(line, pfx, ty) ==
    LET data == Slice(line, 2)
        json == JsonParse(data)
    IN  [prefix |-> pfx, data |-> data,
         parsed |-> IF json.ok THEN json.val ELSE JStr(data),
         type |-> "content"]

\* one branch of parseStreamEvent: slice(2), JSON.parse, raw data on failure
CompactEvent(line, pfx, ty) ==
    LET data == Slice(line, 2)
        json == JsonParse(data)
    IN  [prefix |-> pfx, data |-> data,
         parsed |-> IF json.ok THEN json.val ELSE JStr(data),
         type |-> ty]

parseStreamEvent(line) ==
    IF StartsWith(line, <<"0", ":">>) THEN CompactEvent(line, "0", "content")
    ELSE IF StartsWith(line, <<"9", ":">>) THEN CompactEvent(line, "9", "tool-call")
    ELSE IF StartsWith(line, <<"a", ":">>) THEN CompactEvent(line, "a", "tool-result")
    ELSE IF StartsWith(line, <<"e", ":">>) THEN CompactEvent(line, "e", "end")
    ELSE [prefix |-> "unknown", data |-> line, parsed |-> Undefined,
          type |-> "unknown"]

\* the synthetic event of the catch block
ErrorEvent(error) ==
    [prefix |-> "error", data |-> <<"Error: ", error>>, parsed |-> Undefined,
     type |-> "unknown"]

RECURSIVE MapParseStreamEvent(_)
MapParseStreamEvent(lines) ==
    IF lines = <<>> THEN <<>>
    ELSE <<parseStreamEvent(Head(lines))>> \o MapParseStreamEvent(Tail(lines))

(***************************************************************************)
(* Debug console: the read loop of startStreaming.                         *)
(***************************************************************************)
\* Feed, had it kept in the buffer the lines it hands over
FeedKeepsLines(buffer, chunk) ==
    LET lines == Split(buffer \o chunk)
    IN  [lines |-> ButLast(lines), buffer |-> buffer \o chunk]

\* Feed, had it dropped the partial line instead of keeping it
FeedForgetsPartial(buffer, chunk) ==
    LET lines == Split(buffer \o chunk)
    IN  [lines |-> ButLast(lines), buffer |-> <<>>]

\* buffer += chunk; lines = buffer.split('\n'); buffer = lines.pop() || ''
Feed(buffer, chunk) ==
    LET lines == Split(buffer \o chunk)
    IN  [lines |-> ButLast(lines), buffer |-> PopOrEmpty(lines)]

\* handed, joined and cleared are history: the lines handed to the decoder,
\* whether one of them had been cut by a chunk boundary, and whether the
\* click on Start found a log that was not empty
IdleLoop ==
    [pc |-> "idle", pos |-> 0, buffer |-> <<>>, handed |-> <<>>,
     joined |-> FALSE, cleared |-> FALSE, outcome |-> "none"]

\* an invocation that has returned: its locals are gone, how it ended stays
Returned(how) == [IdleLoop EXCEPT !.pc = "done", !.outcome = how]

\* the slot of the next invocation: the locals of an invocation that has
\* returned are garbage, and its slot is used again
Live(l) == loop[l].pc \notin {"idle", "done"}

NextLoop(l) ==
    /\ ~Live(l)
    /\ \A k \in LoopIds : k < l => Live(k)

\* startStreaming, had it left the log of the session before in place
startStreamingKeepsLog ==
    /\ page = "debug"
    /\ ~isStreaming
    /\ \E l \in LoopIds :
          /\ NextLoop(l)
          /\ events' = events
          /\ isStreaming' = TRUE
          /\ abortControllerRef' = l
          /\ aborted' = [aborted EXCEPT ![l] = FALSE]
          /\ loop' = [loop EXCEPT ![l] =
                 [IdleLoop EXCEPT !.pc = "fetch", !.cleared = events # <<>>]]
    /\ UNCHANGED <<page, stream, chunks, responseText>>

startStreaming ==
    /\ page = "debug"
    /\ ~isStreaming                      \* the Start button is disabled
    /\ \E l \in LoopIds :
          /\ NextLoop(l)
          /\ events' = <<>>
          /\ isStreaming' = TRUE
          /\ abortControllerRef' = l
          /\ aborted' = [aborted EXCEPT ![l] = FALSE]
          /\ loop' = [loop EXCEPT ![l] =
                 [IdleLoop EXCEPT !.pc = "fetch", !.cleared = events # <<>>]]
    /\ UNCHANGED <<page, stream, chunks, responseText>>

\* CatchFinally, had it set the log to the synthetic event alone
CatchFinallyReplacesLog(l, error) ==
    /\ events' = IF error = "AbortError" THEN events
                 ELSE <<ErrorEvent(error)>>
    /\ isStreaming' = FALSE
    /\ loop' = [loop EXCEPT ![l] = Returned(IF error = "AbortError"
                                             THEN "aborted" ELSE "error")]
    /\ UNCHANGED <<page, stream, chunks, responseText, abortControllerRef, aborted>>

\* CatchFinally, had it not told an AbortError from the other errors
CatchFinallyNoAbortTest(l, error) ==
    /\ events' = Append(events, ErrorEvent(error))
    /\ isStreaming' = FALSE
    /\ loop' = [loop EXCEPT ![l] = Returned(IF error = "AbortError"
                                             THEN "aborted" ELSE "error")]
    /\ UNCHANGED <<page, stream, chunks, responseText, abortControllerRef, aborted>>

\* CatchFinally, had it had no finally block
CatchFinallyLeavesFlag(l, error) ==
    /\ events' = IF error = "AbortError" THEN events
                 ELSE Append(events, ErrorEvent(error))
    /\ isStreaming' = isStreaming
    /\ loop' = [loop EXCEPT ![l] = Returned(IF error = "AbortError"
                                             THEN "aborted" ELSE "error")]
    /\ UNCHANGED <<page, stream, chunks, responseText, abortControllerRef, aborted>>

\* the catch and finally blocks of startStreaming
CatchFinally(l, error) ==
    /\ events' = IF error = "AbortError" THEN events
                 ELSE Append(events, ErrorEvent(error))
    /\ isStreaming' = FALSE
    /\ loop' = [loop EXCEPT ![l] = Returned(IF error = "AbortError"
                                             THEN "aborted" ELSE "error")]
    /\ UNCHANGED <<page, stream, chunks, responseText, abortControllerRef, aborted>>

\* fetch resolves with a 2xx response that has a body
FetchOk(l) ==
    /\ page = "debug" /\ loop[l].pc = "fetch" /\ ~aborted[l]
    /\ loop' = [loop EXCEPT ![l].pc = "read"]
    /\ UNCHANGED <<page, stream, chunks, events, responseText, isStreaming,
                   abortControllerRef, aborted>>

\* fetch resolves with a response that is not ok, or without a body
FetchNotOk(l) ==
    /\ page = "debug" /\ loop[l].pc = "fetch" /\ ~aborted[l]
    /\ \E error \in {"HTTP error", "No reader available"} :
          CatchFinally(l, error)

\* fetch or reader.read() rejects: a network failure
TransportFails(l) ==
    /\ page = "debug" /\ loop[l].pc \in {"fetch", "read"} /\ ~aborted[l]
    /\ CatchFinally(l, "TypeError")

\* the pending fetch or read rejects because the signal was aborted
AbortRejects(l) ==
    /\ page = "debug" /\ loop[l].pc \in {"fetch", "read"} /\ aborted[l]
    /\ CatchFinally(l, "AbortError")

\* reader.read() resolves with a chunk of any length
ReadChunk(l) ==
    /\ page = "debug" /\ loop[l].pc = "read" /\ ~aborted[l]
    /\ \E k \in 0..(Len(stream) - loop[l].pos) :
          LET chunk == SubSeq(stream, loop[l].pos + 1, loop[l].pos + k)
              fed == Feed(loop[l].buffer, chunk)
              lines == NonBlank(fed.lines)
          IN  /\ events' = events \o MapParseStreamEvent(lines)
              /\ loop' = [loop EXCEPT
                     ![l].pos = @ + k,
                     ![l].buffer = fed.buffer,
                     ![l].handed = @ \o lines,
                     ![l].joined = @ \/ (/\ loop[l].buffer # <<>>
                                         /\ lines # <<>>
                                         /\ fed.lines[1] = lines[1])]
    /\ UNCHANGED <<page, stream, chunks, responseText, isStreaming,
                   abortControllerRef, aborted>>

\* reader.read() resolves with done: break, then the finally block
ReadDone(l) ==
    /\ page = "debug" /\ loop[l].pc = "read" /\ ~aborted[l]
    /\ loop[l].pos = Len(stream)
    /\ isStreaming' = FALSE
    /\ loop' = [loop EXCEPT ![l] = Returned("completed")]
    /\ UNCHANGED <<page, stream, chunks, events, responseText, abortControllerRef,
                   aborted>>

stopStreaming ==
    /\ page = "debug"
    /\ isStreaming                       \* the Stop button is enabled
    /\ aborted' = IF abortControllerRef # 0
                  THEN [aborted EXCEPT ![abortControllerRef] = TRUE]
                  ELSE aborted
    /\ UNCHANGED <<page, stream, chunks, events, responseText, isStreaming,
                   abortControllerRef, loop>>

clearEvents ==
    /\ page = "debug"
    /\ events' = <<>>
    /\ UNCHANGED <<page, stream, chunks, responseText, isStreaming,
                   abortControllerRef, aborted, loop>>

InitCommon ==
    /\ events = <<>>
    /\ responseText = <<>>
    /\ isStreaming = FALSE
    /\ abortControllerRef = 0
    /\ aborted = [l \in LoopIds |-> FALSE]
    /\ loop = [l \in LoopIds |-> IdleLoop]

InitDebug ==
    /\ page = "debug"
    /\ stream \in StreamsOf(DebugLines)
    /\ chunks = <<>>
    /\ InitCommon

NextDebug ==
    \/ startStreaming
    \/ stopStreaming
    \/ clearEvents
    \/ \E l \in LoopIds : FetchOk(l)
    \/ \E l \in LoopIds : FetchNotOk(l)
    \/ \E l \in LoopIds : TransportFails(l)
    \/ \E l \in LoopIds : AbortRejects(l)
    \/ \E l \in LoopIds : ReadChunk(l)
    \/ \E l \in LoopIds : ReadDone(l)

SpecDebug == InitDebug /\ [][NextDebug]_vars

(***************************************************************************)
(* Custom protocol demo: PROTOCOL, parseStreamLine, processEvent.          *)
(***************************************************************************)
PROTOCOL_TEXT == <<"T", "E", "X", "T", ":">>
PROTOCOL_FUNC_REQ == <<"F", "U", "N", "C", ":">>
PROTOCOL_FUNC_RES == <<"R", "E", "S", "P", ":">>
PROTOCOL_META == <<"M", "E", "T", "A", ":">>
PROTOCOL_DEBUG == <<"D", "E", "B", "U", "G", ":">>

\* The chunks of the model.  simulateStream yields one line and its
\* newline per chunk; the loop is modelled for these and for chunks that
\* hold two lines or a line without its newline.
MainChunks ==
    { PROTOCOL_TEXT \o <<DQ, "A", DQ, NL>>,
      PROTOCOL_TEXT \o <<" ", "0", NL>>,
      PROTOCOL_TEXT \o <<"{", "n", NL>>,
      PROTOCOL_FUNC_REQ \o <<"n", "u", "l", "l", NL>>
          \o PROTOCOL_TEXT \o <<DQ, "B", DQ, NL>>,
      PROTOCOL_FUNC_REQ \o <<"{", "}", NL>>,
      <<"z", "z", NL>>,
      <<" ", NL>>,
      PROTOCOL_TEXT \o <<"1", "2">> }

ChunkSeqs == UNION { [1..n -> MainChunks] : n \in 0..MaxChunks }

\* parseStreamLine returns null
Null == [type |-> "null", data |-> Undefined, raw |-> <<>>]

\* one branch of parseStreamLine: slice, trim, JSON.parse, null on failure
SemanticEvent(line, prefix, ty) ==
    LET data == Trim(Slice(line, Len(prefix)))
        json == JsonParse(data)
    IN  IF json.ok THEN [type |-> ty, data |-> json.val, raw |-> line]
        ELSE Null

parseStreamLine(line) ==
    IF ~Truthy(Trim(line)) THEN Null
    ELSE IF StartsWith(line, PROTOCOL_TEXT)
         THEN SemanticEvent(line, PROTOCOL_TEXT, "text")
    ELSE IF StartsWith(line, PROTOCOL_FUNC_REQ)
         THEN SemanticEvent(line, PROTOCOL_FUNC_REQ, "function-call")
    ELSE IF StartsWith(line, PROTOCOL_FUNC_RES)
         THEN SemanticEvent(line, PROTOCOL_FUNC_RES, "function-response")
    ELSE IF StartsWith(line, PROTOCOL_META)
         THEN SemanticEvent(line, PROTOCOL_META, "metadata")
    ELSE IF StartsWith(line, PROTOCOL_DEBUG)
         THEN SemanticEvent(line, PROTOCOL_DEBUG, "debug")
    ELSE Null

\* String(x), as the + of processEvent converts its right operand
StringOf(x) == x.v

\* prev + (event.data || '')
AppendText(prev, data) ==
    prev \o (IF TruthyValue(data) THEN StringOf(data) ELSE <<>>)

\* the keys of functionRegistry
functionRegistry == { <<"get_current_weather">> }

\* DestructuringThrows, had a name absent from the registry thrown as well
ThrowsOnUnknownName(data) ==
    data.t \in {"null", "undefined"} \/ data.name \notin functionRegistry

\* const { name, id, arguments: args } = event.data throws a TypeError when
\* event.data is null
DestructuringThrows(data) == data.t \in {"null", "undefined"}

\* the entries of functionRegistry that processEvent calls for an event: the
\* function-call branch looks the name up and writes to the console, with
\* or without an entry of that name; no branch calls an entry
RegistryCalls(event) == {}

\* processEvent, had it appended the payload of every event to the text
processEventAppendsAll(event, st) ==
    [events |-> Append(st.events, event),
     text |-> AppendText(st.text, event.data),
     threw |-> event.type = "function-call" /\ DestructuringThrows(event.data)]

\* processEvent on the session st = [events, text, threw]
processEvent(event, st) ==
    [events |-> Append(st.events, event),
     text |-> IF event.type = "text" THEN AppendText(st.text, event.data)
              ELSE st.text,
     threw |-> event.type = "function-call" /\ DestructuringThrows(event.data)]

\* the body of for (const line of lines)
ProcessLine(line, st) ==
    IF Truthy(Trim(line))
    THEN LET event == parseStreamLine(line)
         IN  IF event # Null THEN processEvent(event, st) ELSE st
    ELSE st

\* for (const line of lines), left by the first exception
RECURSIVE ProcessLines(_, _)
ProcessLines(lines, st) ==
    IF lines = <<>> \/ st.threw THEN st
    ELSE ProcessLines(Tail(lines), ProcessLine(Head(lines), st))

(***************************************************************************)
(* Custom protocol demo: startStream and stopStream.  The transport is the *)
(* async generator of the demo: every invocation is handed the same chunks *)
(* in the same order, here any sequence of at most MaxChunks chunks.  The  *)
(* generator yields without waiting, so a chunk is processed in the task   *)
(* that asked for it, and a loop waits only in the delay after a chunk.    *)
(***************************************************************************)
\* the body of the for await loop on chunk n, for the session (evs, text)
ChunkBody(n, evs, text) ==
    ProcessLines(Split(chunks[n]),
                 [events |-> evs, text |-> text, threw |-> FALSE])

\* the click on Start: the reset, and the first turn of the loop
startStream ==
    /\ page = "main"
    /\ ~isStreaming           \* the Start button is disabled; line 168
    /\ \E l \in LoopIds :
          /\ NextLoop(l)
          /\ abortControllerRef' = l
          /\ aborted' = [aborted EXCEPT ![l] = FALSE]
          /\ IF chunks = <<>>
             THEN /\ events' = <<>>
                  /\ responseText' = <<>>
                  /\ isStreaming' = FALSE
                  /\ loop' = [loop EXCEPT ![l] = Returned("completed")]
             ELSE LET st == ChunkBody(1, <<>>, <<>>)
                  IN  /\ events' = st.events
                      /\ responseText' = st.text
                      /\ isStreaming' = ~st.threw
                      /\ loop' = [loop EXCEPT ![l] =
                             IF st.threw THEN Returned("error")
                             ELSE [IdleLoop EXCEPT !.pc = "next", !.pos = 1]]
    /\ UNCHANGED <<page, stream, chunks>>

\* the finally block of startStream
Finally(l, how) ==
    /\ isStreaming' = FALSE
    /\ loop' = [loop EXCEPT ![l] = Returned(how)]

\* abortControllerRef.current?.signal.aborted
SignalAborted ==
    abortControllerRef # 0 /\ aborted[abortControllerRef]

\* the delay is over and the generator is exhausted: the loop ends
GeneratorDone(l) ==
    /\ page = "main" /\ loop[l].pc = "next"
    /\ loop[l].pos = Len(chunks)
    /\ Finally(l, "completed")
    /\ UNCHANGED <<page, stream, chunks, events, responseText, abortControllerRef,
                   aborted>>

\* the delay is over, there is a chunk and the signal is aborted: break
BreakOnAbort(l) ==
    /\ page = "main" /\ loop[l].pc = "next"
    /\ loop[l].pos < Len(chunks)
    /\ SignalAborted
    /\ Finally(l, "aborted")
    /\ UNCHANGED <<page, stream, chunks, events, responseText, abortControllerRef,
                   aborted>>

\* the delay is over and there is a chunk: split it and process its lines,
\* then await the next delay
ProcessChunk(l) ==
    /\ page = "main" /\ loop[l].pc = "next"
    /\ loop[l].pos < Len(chunks)
    /\ ~SignalAborted
    /\ LET st == ChunkBody(loop[l].pos + 1, events, responseText)
       IN  /\ events' = st.events
           /\ responseText' = st.text
           /\ IF st.threw
              THEN \* catch (console.error), then the finally block
                   /\ isStreaming' = FALSE
                   /\ loop' = [loop EXCEPT ![l] = Returned("error")]
              ELSE /\ isStreaming' = isStreaming
                   /\ loop' = [loop EXCEPT ![l].pos = @ + 1]
    /\ UNCHANGED <<page, stream, chunks, abortControllerRef, aborted>>

stopStream ==
    /\ page = "main"
    /\ isStreaming                       \* the Stop button is enabled
    /\ IF abortControllerRef # 0
       THEN /\ aborted' = [aborted EXCEPT ![abortControllerRef] = TRUE]
            /\ isStreaming' = FALSE
       ELSE UNCHANGED <<aborted, isStreaming>>
    /\ UNCHANGED <<page, stream, chunks, events, responseText, abortControllerRef,
                   loop>>

InitMain ==
    /\ page = "main"
    /\ stream = <<>>
    /\ chunks \in ChunkSeqs
    /\ InitCommon

NextMain ==
    \/ startStream
    \/ stopStream
    \/ \E l \in LoopIds : GeneratorDone(l)
    \/ \E l \in LoopIds : BreakOnAbort(l)
    \/ \E l \in LoopIds : ProcessChunk(l)

SpecMain == InitMain /\ [][NextMain]_vars

(***************************************************************************)
(* The demo on the scenarios of the protocol: the generator yields one     *)
(* line per chunk, as simulateStream does.                                 *)
(***************************************************************************)
\* Content A, ToolCall unknown_fn, Content B, Metadata
ScenarioUnknownTool ==
    << PROTOCOL_TEXT \o <<DQ, "A", DQ, NL>>,
       PROTOCOL_FUNC_REQ \o UnknownFnDoc \o <<NL>>,
       PROTOCOL_TEXT \o <<DQ, "B", DQ, NL>>,
       PROTOCOL_META \o FinishDoc \o <<NL>> >>

\* TEXT "Hi", FUNC get_current_weather, RESP, META finishReason stop
ScenarioWeather ==
    << PROTOCOL_TEXT \o <<" ">> \o HiDoc \o <<NL>>,
       PROTOCOL_FUNC_REQ \o <<" ">> \o WeatherDoc \o <<NL>>,
       PROTOCOL_FUNC_RES \o <<" ", "{", "}", NL>>,
       PROTOCOL_META \o <<" ">> \o FinishDoc \o <<NL>> >>

\* the first chunks of simulateStream: a DEBUG line, then a TEXT line
ScenarioDebug ==
    << PROTOCOL_DEBUG \o <<" ", "{", "}", NL>>,
       PROTOCOL_TEXT \o <<" ", DQ, "A", DQ, NL>> >>

InitScenario ==
    /\ page = "main"
    /\ stream = <<>>
    /\ chunks \in {ScenarioUnknownTool, ScenarioWeather, ScenarioDebug}
    /\ InitCommon

SpecScenario == InitScenario /\ [][NextMain]_vars

(***************************************************************************)
(* The demo on the text of ScenarioWeather cut into chunks at any three    *)
(* places, in sessions that run to their end without a click on Stop.      *)
(***************************************************************************)
\* the concatenation of a sequence of texts
RECURSIVE Concat(_)
Concat(texts) ==
    IF texts = <<>> THEN <<>> ELSE Head(texts) \o Concat(Tail(texts))

\* the ways of cutting a text at three places, chunks that are empty included
CutsOf(text) ==
    LET places == 0..Len(text)
    IN  { << SubSeq(text, 1, t[1]), SubSeq(text, t[1] + 1, t[2]),
             SubSeq(text, t[2] + 1, t[3]), SubSeq(text, t[3] + 1, Len(text)) >> :
            t \in { u \in places \X places \X places :
                        u[1] <= u[2] /\ u[2] <= u[3] } }

InitCuts ==
    /\ page = "main"
    /\ stream = <<>>
    /\ chunks \in CutsOf(Concat(ScenarioWeather))
    /\ InitCommon

NextUncancelled ==
    \/ startStream
    \/ \E l \in LoopIds : ProcessChunk(l)
    \/ \E l \in LoopIds : GeneratorDone(l)

SpecCuts == InitCuts /\ [][NextUncancelled]_vars

(***************************************************************************)
(* Both pages on lines chosen for their prefixes: lines of every prefix of *)
(* the page's table, lines that hold a second prefix after the first, and  *)
(* lines that hold a prefix elsewhere than at their start.  The console is *)
(* sent the line as its body, the demo's generator yields it twice.        *)
(***************************************************************************)
CompactClassifyLines ==
    { <<"0", ":", DQ, "A", DQ>>,
      <<"9", ":", "{", "}">>,
      <<"a", ":", "1">>,
      <<"e", ":", "{", "}">>,
      <<"e", ":", "a", ":", "1">>,
      <<"0", ":", "9", ":", "n", "u", "l", "l">>,
      <<":", "0", ":", "1">>,
      <<"0">>,
      <<"z", "z">> }

SemanticClassifyLines ==
    { PROTOCOL_TEXT \o <<DQ, "A", DQ>>,
      PROTOCOL_FUNC_REQ \o <<"{", "}">>,
      PROTOCOL_FUNC_RES \o <<"{", "}">>,
      PROTOCOL_META \o <<"{", "}">>,
      PROTOCOL_DEBUG \o <<"{", "}">>,
      PROTOCOL_META \o <<DQ>> \o PROTOCOL_TEXT \o <<DQ>>,
      PROTOCOL_FUNC_REQ \o <<"n", "u", "l", "l">>,
      <<"X">> \o PROTOCOL_TEXT \o <<DQ, "A", DQ>>,
      <<"T", "E", "X", "T">>,
      <<"z", "z">> }

InitClassify ==
    /\ InitCommon
    /\ \/ /\ page = "debug"
          /\ \E line \in CompactClassifyLines : stream = line \o <<NL>>
          /\ chunks = <<>>
       \/ /\ page = "main"
          /\ stream = <<>>
          /\ \E line \in SemanticClassifyLines :
                 chunks = <<line \o <<NL>>, line \o <<NL>>>>

SpecClassify == InitClassify /\ [][NextDebug \/ NextMain]_vars

\* a turn of the demo's loop: the timer of its delay has fired
LoopTurn(l) == GeneratorDone(l) \/ BreakOnAbort(l) \/ ProcessChunk(l)

\* the demo's loop waits in its delay: exactly then LoopTurn(l) is enabled,
\* and no other action changes loop[l] then
TurnReady(l) == page = "main" /\ loop[l].pc = "next"

\* The event loop runs what is ready: a read that the closed transport has
\* settled with done, a fetch or read that the abort has rejected, and a
\* loop whose delay is over (WF_vars(LoopTurn(l)), written out with its
\* enabling condition).  That a pending fetch or read of an open transport
\* ever settles is not assumed.
Fairness ==
    \A l \in LoopIds :
        /\ WF_vars(ReadDone(l))
        /\ WF_vars(AbortRejects(l))
        /\ \/ []<>~TurnReady(l)
           \/ []<><<TurnReady(l) /\ loop'[l] # loop[l]>>_vars

FairSpecClassify == SpecClassify /\ Fairness

Init == InitDebug \/ InitMain

Next == NextDebug \/ NextMain

Spec == Init /\ [][Next]_vars

(***************************************************************************)
(* Properties of the debug console, checked under SpecDebug.               *)
(***************************************************************************)

\* C1: however the response body is cut into chunks (in the middle of a
\* line, or into empty chunks), the lines handed to parseStreamEvent after
\* any number of characters are the lines handed when the same characters
\* arrive as one chunk.
C1_ChunkSplitInvariance ==
    \A l \in LoopIds :
        (page = "debug" /\ loop[l].pc = "read") =>
            loop[l].handed =
                NonBlank(Feed(<<>>, SubSeq(stream, 1, loop[l].pos)).lines)

\* a whole body was read, at least two lines were handed over, and one of
\* them had been cut by a chunk boundary
C1_Witness ==
    \E l \in LoopIds :
        /\ page = "debug" /\ loop[l].pc = "read"
        /\ loop[l].pos = Len(stream)
        /\ loop[l].joined
        /\ Len(loop[l].handed) >= 2

\* C3: when the transport reports the end of the stream, text left in the
\* buffer that is not blank is decoded as one last line and its event is
\* appended to the log; an empty or blank buffer appends nothing.
C3_FinalLineFlushed ==
    [][\A l \in LoopIds :
          (page = "debug" /\ loop[l].pc = "read"
             /\ loop'[l].outcome = "completed") =>
              events' = events
                  \o MapParseStreamEvent(NonBlank(<<loop[l].buffer>>))]_vars

\* C9: when the response is not ok or a read fails for a reason other than
\* cancellation, the session stops streaming, the events logged before are
\* kept in their order, and one synthetic event follows them.
C9_TransportFailureRecorded ==
    [][\A l \in LoopIds :
          (page = "debug" /\ Live(l) /\ loop'[l].outcome = "error") =>
              /\ ~isStreaming'
              /\ Len(events') = Len(events) + 1
              /\ SubSeq(events', 1, Len(events)) = events
              /\ events'[Len(events')].prefix = "error"]_vars

\* a read failed after an event had been logged
C9_Witness ==
    \E l \in LoopIds :
        /\ page = "debug" /\ loop[l].outcome = "error"
        /\ ~isStreaming
        /\ Len(events) >= 2
        /\ events[1].prefix # "error"
        /\ events[Len(events)].prefix = "error"

\* C10: a loop whose stream was cancelled returns as aborted, which is not
\* the outcome of a transport failure, and appends nothing to the log.
C10_CancelIsNotAnError ==
    [][\A l \in LoopIds :
          (page = "debug" /\ Live(l) /\ aborted[l] /\ loop'[l].pc = "done") =>
              /\ loop'[l].outcome = "aborted"
              /\ events' = events]_vars

\* a stream was cancelled after events had been logged
C10_Witness ==
    \E l \in LoopIds :
        /\ page = "debug" /\ loop[l].outcome = "aborted"
        /\ events # <<>>
        /\ \A i \in 1..Len(events) : events[i].prefix # "error"

\* C12: from the click on Start until the first line of the new stream is
\* decoded, the log and the accumulated text are empty, whatever the
\* session before left in them.
C12_StartResetsSession ==
    \A l \in LoopIds :
        (page = "debug" /\ loop[l].pc \in {"fetch", "read"}
           /\ loop[l].handed = <<>>) =>
            (events = <<>> /\ responseText = <<>>)

\* a stream was started on a log that was not empty, and has read part of
\* its body without a line being complete yet
C12_Witness ==
    \E l \in LoopIds :
        /\ page = "debug" /\ loop[l].pc = "read"
        /\ loop[l].cleared
        /\ loop[l].pos > 0 /\ loop[l].handed = <<>>
        /\ events = <<>>

\* C14: while a stream is in progress, every step leaves the log it found
\* as a prefix of the log it leaves, and likewise the accumulated text.
C14_SessionOnlyGrows ==
    [][(page = "debug" /\ isStreaming /\ isStreaming') =>
          /\ Len(events') >= Len(events)
          /\ SubSeq(events', 1, Len(events)) = events
          /\ Len(responseText') >= Len(responseText)
          /\ SubSeq(responseText', 1, Len(responseText)) = responseText]_vars

\* C19: no line handed to the decoder is empty or white space only, the
\* log has no event of such a line, and it has no more events than lines
\* were handed over.
C19_BlankLinesDropped ==
    \A l \in LoopIds :
        (page = "debug" /\ loop[l].pc = "read") =>
            /\ \A i \in 1..Len(loop[l].handed) :
                   Truthy(Trim(loop[l].handed[i]))
            /\ \A i \in 1..Len(events) :
                   events[i].prefix = "unknown" =>
                       Truthy(Trim(events[i].data))
            /\ Len(events) <= Len(loop[l].handed)

\* a body with a blank line has been read to its end, and its other line
\* is in the log
C19_Witness ==
    \E l \in LoopIds :
        /\ page = "debug" /\ loop[l].pc = "read"
        /\ loop[l].pos = Len(stream)
        /\ \E i \in 1..(Len(Split(stream)) - 1) :
               ~Truthy(Trim(Split(stream)[i]))
        /\ Len(loop[l].handed) = 1
        /\ events = MapParseStreamEvent(loop[l].handed)

\* the text after the last newline of a text, or the text when it has none
RECURSIVE AfterLastNewline(_)
AfterLastNewline(text) ==
    IF text = <<>> \/ text[Len(text)] = NL THEN <<>>
    ELSE AfterLastNewline(SubSeq(text, 1, Len(text) - 1))
             \o <<text[Len(text)]>>

\* C24: after every chunk the buffer has no newline and is the text
\* received since the last newline; the lines cut so far, each followed by
\* a newline, and then the buffer make up the text received so far, and
\* the lines handed to the decoder are those of them that are not blank.
C24_BufferInvariant ==
    \A l \in LoopIds :
        (page = "debug" /\ loop[l].pc = "read") =>
            LET received == SubSeq(stream, 1, loop[l].pos)
                cut == ButLast(Split(received))
            IN  /\ \A i \in 1..Len(loop[l].buffer) : loop[l].buffer[i] # NL
                /\ loop[l].buffer = AfterLastNewline(received)
                /\ Join(cut, TRUE) \o loop[l].buffer = received
                /\ loop[l].handed = NonBlank(cut)

\* lines have been cut and the beginning of the next line is in the buffer
C24_Witness ==
    \E l \in LoopIds :
        /\ page = "debug" /\ loop[l].pc = "read"
        /\ loop[l].buffer # <<>>
        /\ loop[l].handed # <<>>
        /\ loop[l].pos < Len(stream)

(***************************************************************************)
(* Properties of the custom protocol demo, checked under SpecMain.         *)
(***************************************************************************)
\* the prefixes of PROTOCOL and the event type parseStreamLine gives each
SemanticTable ==
    { <<PROTOCOL_TEXT, "text">>,
      <<PROTOCOL_FUNC_REQ, "function-call">>,
      <<PROTOCOL_FUNC_RES, "function-response">>,
      <<PROTOCOL_META, "metadata">>,
      <<PROTOCOL_DEBUG, "debug">> }

\* the non-blank lines of the first n chunks, in order
RECURSIVE LinesOfChunks(_)
LinesOfChunks(n) ==
    IF n = 0 THEN <<>>
    ELSE LinesOfChunks(n - 1) \o NonBlank(Split(chunks[n]))

\* the text the text events of a log amount to
RECURSIVE TextOf(_)
TextOf(evs) ==
    IF evs = <<>> THEN <<>>
    ELSE LET e == evs[Len(evs)]
         IN  TextOf(SubSeq(evs, 1, Len(evs) - 1))
                 \o (IF e.type = "text" THEN StringOf(e.data) ELSE <<>>)

\* C2: once a stream is cancelled, no step of its loop applies an event:
\* the log and the accumulated text are as they were after the last event
\* before the cancel, also when a new stream has been started since.
C2_CancelStopsStream ==
    [][\A l \in LoopIds :
          (aborted[l] /\ Live(l) /\ loop'[l] # loop[l]) =>
              (events' = events /\ responseText' = responseText)]_vars

\* C4: the log gets one entry per non-blank line of every chunk a loop
\* processes, in the order of the lines, whatever the line's prefix and
\* whether or not its payload is JSON.
C4_CompleteAuditTrail ==
    [][\A l \in LoopIds :
          (page = "main" /\ loop'[l].pc = "next" /\ loop'[l] # loop[l]) =>
              LET before == IF Live(l) THEN events ELSE <<>>
              IN  /\ Len(events') >= Len(before)
                  /\ SubSeq(events', 1, Len(before)) = before
                  /\ [i \in 1..(Len(events') - Len(before)) |->
                          events'[Len(before) + i].raw]
                         = NonBlank(Split(chunks[loop'[l].pos]))]_vars

\* C5: no line makes the read loop stop: a loop of the demo, which has no
\* transport that can fail, returns only because the generator is exhausted
\* or because the stream was cancelled.
C5_AnomaliesNeverHalt ==
    \A l \in LoopIds :
        (page = "main" /\ loop[l].pc = "done") =>
            loop[l].outcome \in {"completed", "aborted"}

\* C6: every non-blank line a loop has decoded that starts with no prefix of
\* the table decodes to an event of kind unknown whose raw text is the line.
C6_UnmatchedPrefixIsUnknown ==
    \A l \in LoopIds :
        (page = "main" /\ Live(l)) =>
            \A i \in 1..Len(LinesOfChunks(loop[l].pos)) :
                LET line == LinesOfChunks(loop[l].pos)[i]
                IN  (\A p \in SemanticTable : ~StartsWith(line, p[1])) =>
                        /\ parseStreamLine(line).type = "unknown"
                        /\ parseStreamLine(line).raw = line

\* C7: every line a loop has decoded that starts with a prefix of the table
\* and goes on with text that is not JSON decodes to an event of the
\* prefix's kind whose payload is that text as a string.
C7_MalformedJsonIsRawString ==
    \A l \in LoopIds :
        (page = "main" /\ Live(l)) =>
            \A i \in 1..Len(LinesOfChunks(loop[l].pos)) :
                LET line == LinesOfChunks(loop[l].pos)[i]
                IN  \A p \in SemanticTable :
                        LET rest == Trim(Slice(line, Len(p[1])))
                        IN  (StartsWith(line, p[1]) /\ ~JsonParse(rest).ok) =>
                                /\ parseStreamLine(line).type = p[2]
                                /\ parseStreamLine(line).data = JStr(rest)

\* C8: the accumulated text is the payloads of the log's text events, each
\* as a string, in order: a payload of 0, false or null adds "0", "false"
\* or "null".
C8_ContentAppended ==
    page = "main" => responseText = TextOf(events)

\* the loops whose next turn applies an event: on the demo those that wait
\* in the delay, have a chunk with an event to come and will not find the
\* signal aborted; on the debug console those whose signal is not aborted
ApplyingLoops ==
    { l \in LoopIds :
        \/ /\ page = "main" /\ loop[l].pc = "next"
           /\ loop[l].pos < Len(chunks)
           /\ ~SignalAborted
           /\ ChunkBody(loop[l].pos + 1, <<>>, <<>>).events # <<>>
        \/ /\ page = "debug" /\ loop[l].pc \in {"fetch", "read"}
           /\ ~aborted[l] }

\* C20: at most one read loop is applying events to the session.
C20_AtMostOneActiveLoop ==
    Cardinality(ApplyingLoops) <= 1

\* C22: isStreaming is true whenever an invocation of the start handler
\* has not yet reached its finally block.
C22_FlagTracksLoopActivity ==
    (\E l \in LoopIds : Live(l)) => isStreaming

(***************************************************************************)
(* Properties of the demo on the scenarios, checked under SpecScenario.    *)
(***************************************************************************)
\* the event carries a finishReason
HasFinishReason(e) ==
    e.type = "metadata" /\ "finishReason" \in e.data.keys

\* C11: once a Metadata event that carries a finishReason has been applied,
\* the session is not streaming, whether or not the transport has closed.
C11_CompletedAtFinishReason ==
    (page = "main" /\ \E i \in 1..Len(events) : HasFinishReason(events[i]))
        => ~isStreaming

\* C13: a turn of the loop on a line whose prefix is not TEXT (the first
\* turn, in the task of the click on Start, begins with an empty session):
\* appends one event, which is not a text event, to the log and leaves the
\* accumulated text as it was.
C13_NonContentLeavesText ==
    [][\A l \in LoopIds :
          (/\ page = "main" /\ loop'[l].pc = "next" /\ loop'[l] # loop[l]
           /\ ~StartsWith(chunks[loop'[l].pos], PROTOCOL_TEXT)) =>
              LET before == IF Live(l) THEN events ELSE <<>>
                  text == IF Live(l) THEN responseText ELSE <<>>
              IN  /\ responseText' = text
                  /\ Len(events') = Len(before) + 1
                  /\ SubSeq(events', 1, Len(before)) = before
                  /\ events'[Len(events')].type
                         \in {"function-call", "function-response",
                              "metadata", "debug"}]_vars

\* text had been accumulated, and a tool call, a tool result and a metadata
\* event were applied after it
C13_Witness ==
    /\ page = "main" /\ Len(events) = 4
    /\ events[1].type = "text" /\ responseText = <<"H", "i">>
    /\ events[2].type = "function-call"
    /\ events[3].type = "function-response"
    /\ events[4].type = "metadata"

\* no invocation of startStream has overlapped another: the slots after the
\* first have never been used
NoOverlap == \A k \in LoopIds \ {1} : loop[k].pc = "idle"

\* the first n elements of a sequence
Take(seq, n) == SubSeq(seq, 1, n)

\* C15: on the lines Content A, ToolCall unknown_fn, Content B, Metadata the
\* loop does not end in an error; the call is in the log, the session is
\* streaming unless Stop was clicked, and the text after the lines decoded
\* so far is that of their Content events: AB from the third line on.
C15_UnknownToolCallNotFatal ==
    (page = "main" /\ chunks = ScenarioUnknownTool /\ NoOverlap) =>
        /\ loop[1].outcome # "error"
        /\ loop[1].outcome = "completed" =>
               (responseText = <<"A", "B">> /\ Len(events) = 4)
        /\ loop[1].pc = "next" =>
               /\ [i \in 1..Len(events) |-> events[i].type]
                      = Take(<<"text", "function-call", "text", "metadata">>,
                             loop[1].pos)
               /\ responseText = IF loop[1].pos >= 3 THEN <<"A", "B">>
                                 ELSE <<"A">>
               /\ loop[1].pos >= 2 =>
                      events[2].data.name = <<"unknown_fn">>
               /\ ~aborted[1] => isStreaming

\* the four lines have been decoded in a session that was not cancelled: the
\* unknown call is in the log and the text is AB
C15_Witness ==
    /\ page = "main" /\ chunks = ScenarioUnknownTool /\ NoOverlap
    /\ loop[1].pc = "next" /\ loop[1].pos = 4
    /\ isStreaming
    /\ events[2].type = "function-call"
    /\ events[2].data.name \notin functionRegistry
    /\ responseText = <<"A", "B">>

\* C16: for every tool call in the log that names an entry of the
\* registry, processEvent has called that entry.
C16_RegisteredToolInvoked ==
    \A i \in 1..Len(events) :
        (/\ page = "main" /\ events[i].type = "function-call"
         /\ events[i].data.name \in functionRegistry) =>
            events[i].data.name \in RegistryCalls(events[i])

(***************************************************************************)
(* Properties of the demo on the cut scenario, checked under SpecCuts.     *)
(***************************************************************************)
\* C17: wherever the three chunk boundaries fall, a session that has run to
\* its end is not streaming, its text is Hi and its log is the four events
\* Content, ToolCall, ToolResult, Metadata in this order.
C17_ScenarioUnderChunking ==
    (page = "main" /\ loop[1].outcome = "completed") =>
        /\ ~isStreaming
        /\ responseText = <<"H", "i">>
        /\ [i \in 1..Len(events) |-> events[i].type]
               = <<"text", "function-call", "function-response", "metadata">>

\* C18: after any number of chunks, the lines the loop of the demo has cut
\* its chunks into are the lines the loop of the debug console hands to its
\* decoder when it is fed the same chunks.
C18_SameReassembly ==
    \A l \in LoopIds :
        (page = "main" /\ loop[l].pc = "next") =>
            LinesOfChunks(loop[l].pos)
                = NonBlank(Feed(<<>>,
                                Concat(SubSeq(chunks, 1, loop[l].pos))).lines)

(***************************************************************************)
(* Properties of the two decoders, checked under SpecClassify.             *)
(***************************************************************************)
\* the prefixes parseStreamEvent tests for and the type it gives each
CompactTable ==
    { <<<<"0", ":">>, "content">>,
      <<<<"9", ":">>, "tool-call">>,
      <<<<"a", ":">>, "tool-result">>,
      <<<<"e", ":">>, "end">> }

\* the line begins with the text p
HasPrefix(line, p) ==
    Len(line) >= Len(p) /\ \A i \in 1..Len(p) : line[i] = p[i]

\* no prefix of the table is the beginning of another
Unambiguous(table) ==
    \A p \in table : \A q \in table : p # q => ~HasPrefix(q[1], p[1])

\* the kind of the longest prefix of the table the line begins with
LongestMatch(table, line, none) ==
    LET matches == { p \in table : HasPrefix(line, p[1]) }
    IN  IF matches = {} THEN none
        ELSE (CHOOSE p \in matches :
                 \A q \in matches : Len(q[1]) <= Len(p[1]))[2]

\* the kind of the first entry, in a given order of the checks, that the
\* line begins with
RECURSIVE FirstMatch(_, _, _)
FirstMatch(order, line, none) ==
    IF order = <<>> THEN none
    ELSE IF HasPrefix(line, Head(order)[1]) THEN Head(order)[2]
         ELSE FirstMatch(Tail(order), line, none)

\* the orders the checks of a table can be made in
OrdersOf(table) ==
    { o \in [1..Cardinality(table) -> table] :
        \A i \in DOMAIN o : \A j \in DOMAIN o : i # j => o[i] # o[j] }

CompactOrders == OrdersOf(CompactTable)

SemanticOrders == OrdersOf(SemanticTable)

\* the lines the loops have decoded so far
DecodedLines ==
    UNION { IF page = "debug"
            THEN { loop[l].handed[i] : i \in 1..Len(loop[l].handed) }
            ELSE { LinesOfChunks(loop[l].pos)[i] :
                       i \in 1..Len(LinesOfChunks(loop[l].pos)) } :
            l \in LoopIds }

\* on the lines the pages are sent, the first match is the longest match
\* in every order of the tests
OrderIndependent ==
    /\ \A line \in CompactClassifyLines : \A o \in CompactOrders :
          FirstMatch(o, line, "unknown")
              = LongestMatch(CompactTable, line, "unknown")
    /\ \A line \in SemanticClassifyLines : \A o \in SemanticOrders :
          FirstMatch(o, line, "null")
              = LongestMatch(SemanticTable, line, "null")

\* C21: in neither table is a prefix the beginning of another; the first
\* match is the longest match in every order of the tests; and for every
\* line decoded the kind the decoder's chain of startsWith tests gives is
\* the kind of the longest prefix the line begins with.  The demo's decoder
\* gives a kind only when it returns an event.
C21_FirstMatchIsLongestMatch ==
    /\ Unambiguous(CompactTable) /\ Unambiguous(SemanticTable)
    /\ OrderIndependent
    /\ \A line \in DecodedLines :
          IF page = "debug"
          THEN parseStreamEvent(line).type
                   = LongestMatch(CompactTable, line, "unknown")
          ELSE /\ parseStreamLine(line).type
                     \in {LongestMatch(SemanticTable, line, "null"), "null"}
               /\ LongestMatch(SemanticTable, line, "null") = "null"
                     => parseStreamLine(line) = Null

\* a line that holds a second prefix after its first has been decoded and
\* logged with the kind of the first
C21_Witness ==
    \/ /\ page = "debug"
       /\ <<"e", ":", "a", ":", "1">> \in DecodedLines
       /\ Len(events) = 1 /\ events[1].type = "end"
    \/ /\ page = "main"
       /\ PROTOCOL_META \o <<DQ>> \o PROTOCOL_TEXT \o <<DQ>> \in DecodedLines
       /\ Len(events) = 1 /\ events[1].type = "metadata"

\* the transport of a live loop has delivered everything and closed
TransportClosed ==
    \E l \in LoopIds :
        \/ page = "debug" /\ loop[l].pc = "read" /\ loop[l].pos = Len(stream)
        \/ page = "main" /\ loop[l].pc = "next" /\ loop[l].pos = Len(chunks)

\* the stream of a live loop has been cancelled
Cancelled == \E l \in LoopIds : Live(l) /\ aborted[l]

\* C23: when the transport has closed or the stream has been cancelled,
\* isStreaming becomes false; a loop that returns, by its normal end, by an
\* error or by an abort, leaves it false; and once false it becomes true
\* only by a click on Start, which begins a new invocation.
C23_EventuallyStopsStreaming ==
    /\ TransportClosed ~> ~isStreaming
    /\ Cancelled ~> ~isStreaming
    /\ [][\A l \in LoopIds :
             (Live(l) /\ loop'[l].pc = "done") => ~isStreaming']_vars
    /\ [][(~isStreaming /\ isStreaming') =>
             \E l \in LoopIds : ~Live(l) /\ loop'[l].pc \in {"fetch", "next"}]_vars

\* a stream was cancelled while its read was pending, the read was
\* rejected and the console is not streaming
C23_Witness ==
    \E l \in LoopIds :
        /\ page = "debug" /\ loop[l].outcome = "aborted"
        /\ aborted[l]
        /\ ~isStreaming

=============================================================================
